---- MODULE Spec2Model ----
(***************************************************************************)
(* vite-react-mcp: the MCP tool server hosted by the Vite dev server       *)
(* (initMcpServer, instrumentViteDevServer) and the browser-side listeners *)
(* (setupMcpToolsHandler), joined by Vite's websocket: server -> browser   *)
(* custom events carry tool requests, browser -> server custom events      *)
(* carry the responses.  One browser tab is connected throughout; in it   *)
(* bippy's onCommitFiberRoot hook keeps the fiber roots and the commit     *)
(* counter of shared/store.js.                                             *)
(*                                                                         *)
(* Fields named "call" / "forCall" on events and "by" / "browser" /        *)
(* "outcome" on calls are history only: the wire events of the program carry an event name    *)
(* and a data string, nothing else, and no guard of the model reads the    *)
(* history.                                                                *)
(***************************************************************************)
EXTENDS Integers, Sequences, FiniteSets, TLC

----------------------------------------------------------------------------
(* Bounds of the model *)

MaxCalls == 2
MaxCallsFew == 1
MaxTime == 3
MaxSessions == 2
MaxSessionsFew == 1
MaxInFlight == 1
MaxCommits == 2
MaxFibers == 2

(* waitForEvent's fixed timeout, in clock ticks *)
DefaultTimeout == 2

----------------------------------------------------------------------------
(* Values *)

(* transport.sessionId: an opaque token per /sse connection *)
SessionNames == <<"s1", "s2", "s3", "s4">>
SessionIds == { SessionNames[i] : i \in 1..MaxSessions }

ToolNames ==
  { "highlight-component", "get-component-tree",
    "get-component-states", "get-unnecessary-rerenders" }

(* request.params.name as a client may send it *)
RequestedNames == ToolNames \cup { "no-such-tool" }

(* a JavaScript value of request.params.arguments, by type *)
Undefined == [t |-> "undefined", v |-> ""]
Str(s) == [t |-> "string", v |-> s]
Num(s) == [t |-> "number", v |-> s]
Bool(s) == [t |-> "boolean", v |-> s]

MkArgs(c, tf, all) == [componentName |-> c, timeframe |-> tf, allComponents |-> all]

(* request.params.arguments as a client may send them *)
Arguments ==
  { MkArgs(Str("App"), Undefined, Undefined),
    MkArgs(Num("123"), Undefined, Undefined),
    MkArgs(Undefined, Str("soon"), Str("yes")) }

----------------------------------------------------------------------------
(* Schemas (schema.js): the declared shape of each tool's arguments *)

HighlightComponentSchema(a) ==
  a.componentName.t = "string" /\ a.componentName.v # ""

GetComponentStatesSchema(a) ==
  a.componentName.t = "string" /\ a.componentName.v # ""

GetComponentTreeSchema(a) ==
  a.allComponents.t \in {"boolean", "undefined"}

GetUnnecessaryRerendersSchema(a) ==
  /\ a.timeframe.t \in {"number", "undefined"}
  /\ a.allComponents.t \in {"boolean", "undefined"}

SchemaAccepts(name, a) ==
  CASE name = "highlight-component" -> HighlightComponentSchema(a)
    [] name = "get-component-tree" -> GetComponentTreeSchema(a)
    [] name = "get-component-states" -> GetComponentStatesSchema(a)
    [] name = "get-unnecessary-rerenders" -> GetUnnecessaryRerendersSchema(a)
    [] OTHER -> FALSE

(* Schema.parse keeps the declared keys and strips the others *)
SchemaParse(name, a) ==
  CASE name \in {"highlight-component", "get-component-states"} ->
         MkArgs(a.componentName, Undefined, Undefined)
    [] name = "get-component-tree" ->
         MkArgs(Undefined, Undefined, a.allComponents)
    [] OTHER -> MkArgs(Undefined, a.timeframe, a.allComponents)

(* JSON.stringify / JSON.parse of an arguments object *)
JSONstringify(a) == [json |-> a]
JSONparse(d) == d.json

(* a data string JSON.parse throws a SyntaxError on, and the test for it *)
NotJSON == [raw |-> "{oops"]
IsJSON(d) == "json" \in DOMAIN d

----------------------------------------------------------------------------
(* Event names, server side (initMcpServer) and browser side               *)
(* (setupMcpToolsHandler)                                                  *)

ServerRequestEvent(name) ==
  CASE name = "highlight-component" -> "highlight-component"
    [] name = "get-component-tree" -> "get-component-tree"
    [] name = "get-component-states" -> "get-component-states"
    [] name = "get-unnecessary-rerenders" -> "get-unnecessary-rerenders"

(* ServerResponseEvent with every case waiting on the event name of the *)
(* first case                                                           *)
ServerResponseEvent_FirstCaseName(name) == "highlight-component-response"

ServerResponseEvent(name) ==
  CASE name = "highlight-component" -> "highlight-component-response"
    [] name = "get-component-tree" -> "get-component-tree-response"
    [] name = "get-component-states" -> "get-component-states-response"
    [] name = "get-unnecessary-rerenders" -> "get-unnecessary-rerenders-response"

(* the event name each listener is registered under with hot.on *)
BrowserRequestEvent(name) ==
  CASE name = "highlight-component" -> "highlight-component"
    [] name = "get-component-tree" -> "get-component-tree"
    [] name = "get-component-states" -> "get-component-states"
    [] name = "get-unnecessary-rerenders" -> "get-unnecessary-rerenders"

(* BrowserResponseEvent with the names of two listeners exchanged *)
BrowserResponseEvent_Exchanged(name) ==
  CASE name = "highlight-component" -> "highlight-component-response"
    [] name = "get-component-tree" -> "get-component-states-response"
    [] name = "get-component-states" -> "get-component-tree-response"
    [] name = "get-unnecessary-rerenders" -> "get-unnecessary-rerenders-response"

(* the event name each listener answers on with hot.send *)
BrowserResponseEvent(name) ==
  CASE name = "highlight-component" -> "highlight-component-response"
    [] name = "get-component-tree" -> "get-component-tree-response"
    [] name = "get-component-states" -> "get-component-states-response"
    [] name = "get-unnecessary-rerenders" -> "get-unnecessary-rerenders-response"

----------------------------------------------------------------------------
(* State *)

VARIABLES
  transports,   \* instrumentViteDevServer: keys of the transports Map
  opened,       \* every sessionId allocated so far
  calls,        \* tool calls the CallToolRequest handler has been entered for
  wsOut,        \* viteDevServer.ws.send: events on their way to the browser
  wsIn,         \* hot.send: events on their way to the server
  now,          \* the server's clock, in ticks
  http,         \* the last /messages request and the status it was answered
  currentCommitFrameId,  \* store.currentCommitFrameId of the tab
  fiberRoots,   \* the fiberRoots Map of the tab: renderId -> Set of roots
  commit        \* the last onCommitFiberRoot run: its number, arguments and
                \* fibers, and what was handed to collectUnnecessaryRender

(* shared/store.js: the state of the tab *)
storeVars == <<currentCommitFrameId, fiberRoots, commit>>

vars == <<transports, opened, calls, wsOut, wsIn, now, http,
          currentCommitFrameId, fiberRoots, commit>>

NoResult == [kind |-> "none", text |-> <<>>]
TextResult(d) == [kind |-> "text", text |-> <<d>>]
ErrorResult(m) == [kind |-> "error", text |-> m]

NoRequest == [method |-> "", url |-> <<>>, status |-> 0, handed |-> ""]

NoCommit == [n |-> 0, renderId |-> 0, root |-> "", fibers |-> << >>, collected |-> << >>]

Init ==
  /\ transports = {}
  /\ opened = {}
  /\ calls = <<>>
  /\ wsOut = <<>>
  /\ wsIn = <<>>
  /\ now = 0
  /\ http = NoRequest
  /\ currentCommitFrameId = 0
  /\ fiberRoots = << >>
  /\ commit = NoCommit

(* the calls whose waitForEvent listener is still registered *)
Pending == { i \in 1..Len(calls) : calls[i].st = "Sent" }

----------------------------------------------------------------------------
(* initMcpServer: the CallToolRequest handler, up to its await *)

(* ToolCallEvents with ws.send moved before Schema.parse *)
ToolCallEvents_SendBeforeParse(name, a, id) ==
  IF name \in ToolNames
    THEN << [event |-> ServerRequestEvent(name),
             data |-> JSONstringify(SchemaParse(name, a)),
             call |-> id] >>
    ELSE << >>

(* ToolCallEvents with the ws.send statement doubled *)
ToolCallEvents_SendTwice(name, a, id) ==
  IF name \in ToolNames /\ SchemaAccepts(name, a)
    THEN << [event |-> ServerRequestEvent(name),
             data |-> JSONstringify(SchemaParse(name, a)),
             call |-> id],
            [event |-> ServerRequestEvent(name),
             data |-> JSONstringify(SchemaParse(name, a)),
             call |-> id] >>
    ELSE << >>

(* what the handler publishes with viteDevServer.ws.send for call id *)
ToolCallEvents(name, a, id) ==
  IF name \in ToolNames /\ SchemaAccepts(name, a)
    THEN << [event |-> ServerRequestEvent(name),
             data |-> JSONstringify(SchemaParse(name, a)),
             call |-> id] >>
    ELSE << >>

(* waitForEvent(viteDevServer, eventName): the listener and its timer *)
waitForEvent(eventName, t) == [event |-> eventName, deadline |-> t + DefaultTimeout]

(* ToolCallRecord with the default case lost: an unknown name falls *)
(* into a tool's case and fails its Schema.parse                    *)
ToolCallRecord_NoDefaultCase(s, name, a, id, t) ==
  LET base == [session |-> s, name |-> name, args |-> a,
               sent |-> Len(ToolCallEvents(name, a, id)),
               st |-> "Failed", waiter |-> [event |-> "", deadline |-> 0],
               result |-> NoResult, by |-> 0, browser |-> "", outcome |-> ""]
  IN  IF ~SchemaAccepts(name, a)
        THEN [base EXCEPT !.result = ErrorResult(<<"Invalid input: ", "ZodError">>)]
      ELSE [base EXCEPT !.st = "Sent",
                        !.waiter = waitForEvent(ServerResponseEvent(name), t)]

(* ToolCallRecord with a suspension between viteDevServer.ws.send and the *)
(* call of waitForEvent: the handler is left with no listener registered *)
ToolCallRecord_SuspendsBeforeWait(s, name, a, id, t) ==
  LET base == [session |-> s, name |-> name, args |-> a,
               sent |-> Len(ToolCallEvents(name, a, id)),
               st |-> "Failed", waiter |-> [event |-> "", deadline |-> 0],
               result |-> NoResult, by |-> 0, browser |-> "", outcome |-> ""]
  IN  IF name \notin ToolNames
        THEN [base EXCEPT !.result = ErrorResult(<<"Unknown tool: ", name>>)]
      ELSE IF ~SchemaAccepts(name, a)
        THEN [base EXCEPT !.result = ErrorResult(<<"Invalid input: ", "ZodError">>)]
      ELSE [base EXCEPT !.st = "Sent",
                        !.waiter = [event |-> "", deadline |-> t + DefaultTimeout]]

(* the state the handler leaves call id in when it suspends or throws *)
ToolCallRecord(s, name, a, id, t) ==
  LET base == [session |-> s, name |-> name, args |-> a,
               sent |-> Len(ToolCallEvents(name, a, id)),
               st |-> "Failed", waiter |-> [event |-> "", deadline |-> 0],
               result |-> NoResult, by |-> 0, browser |-> "", outcome |-> ""]
  IN  IF name \notin ToolNames
        THEN [base EXCEPT !.result = ErrorResult(<<"Unknown tool: ", name>>)]
      ELSE IF ~SchemaAccepts(name, a)
        THEN [base EXCEPT !.result = ErrorResult(<<"Invalid input: ", "ZodError">>)]
      ELSE [base EXCEPT !.st = "Sent",
                        !.waiter = waitForEvent(ServerResponseEvent(name), t)]

CallToolRequestHandler(s, name, a) ==
  LET id == Len(calls) + 1 IN
  /\ calls' = Append(calls, ToolCallRecord(s, name, a, id, now))
  /\ wsOut' = wsOut \o ToolCallEvents(name, a, id)

----------------------------------------------------------------------------
(* setupMcpToolsHandler: the browser-side listeners *)

(* what the tool called by a listener does: external to the bridge *)
ToolOutcomes(event) ==
  IF event = "highlight-component"
    THEN {"found", "none", "throws"}
    ELSE {"ok", "throws", "unserializable"}

Response(event, data, req) == << [event |-> event, data |-> data, forCall |-> req.call] >>

(* HighlightText with the message of the catch block lost *)
HighlightText_CatchKeepsDefault(outcome) ==
  IF outcome = "found" THEN "Found and highlighted N components" ELSE "Action failed"

(* the highlight-component listener's response text: 'Action failed' unless *)
(* the tool returned components or threw                                    *)
HighlightText(outcome) ==
  CASE outcome = "found" -> "Found and highlighted N components"
    [] outcome = "none" -> "Action failed"
    [] outcome = "throws" -> "Error: message"

(* the events a listener sends with hot.send for request event req; *)
(* none when the listener throws before its hot.send                *)
BrowserResponse(req, outcome) ==
  LET d == JSONparse(req.data) IN
  IF ~IsJSON(req.data) THEN << >> ELSE
  CASE req.event = BrowserRequestEvent("highlight-component") ->
         IF d.componentName.t # "string" THEN << >>
         ELSE Response(BrowserResponseEvent("highlight-component"),
                       HighlightText(outcome), req)
    [] req.event = BrowserRequestEvent("get-component-tree") ->
         IF outcome = "ok"
           THEN Response(BrowserResponseEvent("get-component-tree"), "componentTreeRoot", req)
           ELSE << >>
    [] req.event = BrowserRequestEvent("get-component-states") ->
         IF d.componentName.t # "string" THEN << >>
         ELSE IF outcome = "ok"
           THEN Response(BrowserResponseEvent("get-component-states"),
                         "componentStatesResult", req)
           ELSE << >>
    [] req.event = BrowserRequestEvent("get-unnecessary-rerenders") ->
         IF outcome = "ok"
           THEN Response(BrowserResponseEvent("get-unnecessary-rerenders"),
                         "wastedRenders", req)
         ELSE IF outcome = "unserializable"
           THEN Response(BrowserResponseEvent("get-unnecessary-rerenders"),
                         "{error: message}", req)
         ELSE << >>
    [] OTHER -> << >>

(* a request event reaches the tab and its listener runs *)
BrowserHandle ==
  /\ wsOut # << >>
  /\ \E o \in ToolOutcomes(Head(wsOut).event) :
       LET sends == BrowserResponse(Head(wsOut), o) IN
       /\ wsIn' = wsIn \o sends
       /\ calls' = IF Head(wsOut).call \in 1..Len(calls)
                     THEN [calls EXCEPT
                             ![Head(wsOut).call].browser =
                               IF sends = << >> THEN "threw" ELSE "answered",
                             ![Head(wsOut).call].outcome = o]
                     ELSE calls
  /\ wsOut' = Tail(wsOut)
  /\ UNCHANGED <<transports, opened, now, http, storeVars>>

(* viteDevServer.ws is the dev server's one websocket: a sender other than *)
(* the tool-call handler publishes a custom event under a request name     *)
OtherSend(events, payloads) ==
  /\ Len(wsOut) + Len(wsIn) < MaxInFlight
  /\ \E e \in events, d \in payloads :
       wsOut' = Append(wsOut, [event |-> e, data |-> d, call |-> 0])
  /\ UNCHANGED <<transports, opened, calls, wsIn, now, http, storeVars>>

----------------------------------------------------------------------------
(* waitForEvent: resolution and timeout of the waiters *)

(* a response event reaches the server: viteDevServer.ws hands it to every *)
(* listener registered under its name, and each of them resolves           *)
ResolveWaiters(cs, r) ==
  [i \in 1..Len(cs) |->
     IF cs[i].st = "Sent" /\ cs[i].waiter.event = r.event
       THEN [cs[i] EXCEPT !.st = "Resolved",
                          !.result = TextResult(r.data),
                          !.by = r.forCall]
       ELSE cs[i]]

DeliverResponse ==
  /\ wsIn # << >>
  /\ calls' = ResolveWaiters(calls, Head(wsIn))
  /\ wsIn' = Tail(wsIn)
  /\ UNCHANGED <<transports, opened, wsOut, now, http, storeVars>>

(* TimerDue with the timer started at no delay *)
TimerDue_NoDelay(c, t) == c.st = "Sent"

(* TimerDue with no timer started at all *)
TimerDue_NoTimer(c, t) == FALSE

(* the timer of a waiter is due *)
TimerDue(c, t) == c.st = "Sent" /\ c.waiter.deadline <= t

TimeoutFires(i) ==
  /\ i \in 1..Len(calls)
  /\ TimerDue(calls[i], now)
  /\ calls' = [calls EXCEPT ![i].st = "TimedOut",
                            ![i].result = ErrorResult(<<"Timeout waiting for ",
                                                       calls[i].waiter.event>>)]
  /\ UNCHANGED <<transports, opened, wsOut, wsIn, now, http, storeVars>>

(* time passes; a due timer runs before the clock moves on *)
Tick ==
  /\ now < MaxTime
  /\ \A i \in 1..Len(calls) : ~TimerDue(calls[i], now)
  /\ now' = now + 1
  /\ UNCHANGED <<transports, opened, calls, wsOut, wsIn, http, storeVars>>

----------------------------------------------------------------------------
(* instrumentViteDevServer: the /sse and /messages middlewares *)

(* new SSEServerTransport: a sessionId no transport had before (the *)
(* tokens are taken in the order of SessionNames)                   *)
FreshSessionId == SessionNames[Cardinality(opened) + 1]

SseOpen(maxSessions) ==
  /\ Cardinality(opened) < maxSessions
  /\ transports' = transports \cup {FreshSessionId}
  /\ opened' = opened \cup {FreshSessionId}
  /\ UNCHANGED <<calls, wsOut, wsIn, now, http, storeVars>>

(* res.on('close') *)
SseClose ==
  /\ \E s \in transports : transports' = transports \ {s}
  /\ UNCHANGED <<opened, calls, wsOut, wsIn, now, http, storeVars>>

(* req.url as the list of its pieces between '?' characters, each piece *)
(* as the list of <<key, value>> pairs URLSearchParams reads from it    *)
PathPiece == << <<"/", "">> >>
QueryPiece(v) == << <<"sessionId", v>> >>

Methods == {"OPTIONS", "GET", "POST"}

Urls ==
  { <<PathPiece>>, <<PathPiece, << >> >>,
    <<PathPiece, << <<"other", "1">> >> >>,
    <<PathPiece, << <<"other", "1">>, <<"sessionId", SessionNames[1]>> >> >>,
    <<PathPiece, << <<"sessionId", "">>, <<"sessionId", SessionNames[1]>> >> >>,
    <<PathPiece, << <<"other", "1">> >>, QueryPiece(SessionNames[1])>>,
    <<PathPiece, QueryPiece(SessionNames[1]), << <<"other", "1">> >> >>,
    <<PathPiece, << <<"sessionId", SessionNames[1]>>, <<"other", "1">> >>,
      << <<"other", "1">> >> >> }
  \cup { <<PathPiece, QueryPiece(v)>> : v \in {SessionNames[1], "", "xyz"} }

(* req.url?.split('?').pop() *)
SplitPop(url) == url[Len(url)]

(* URLSearchParams.get: the first value under key, << >> for null *)
SearchParamsGet(pairs, key) ==
  LET at == { i \in 1..Len(pairs) : pairs[i][1] = key }
  IN  IF at = {} THEN << >>
      ELSE << pairs[CHOOSE i \in at : \A j \in at : i <= j][2] >>

(* MessagesOutcome with the return after the 405 answer lost *)
MessagesOutcome_NoReturnAfter405(method, url, registered) ==
  LET clientId == SearchParamsGet(SplitPop(url), "sessionId") IN
  IF method = "OPTIONS" THEN [status |-> 204, handed |-> ""]
  ELSE IF clientId = << >> \/ clientId[1] = ""
    THEN [status |-> IF method # "POST" THEN 405 ELSE 400, handed |-> ""]
  ELSE IF clientId[1] \notin registered
    THEN [status |-> IF method # "POST" THEN 405 ELSE 404, handed |-> ""]
  ELSE [status |-> IF method # "POST" THEN 405 ELSE 202, handed |-> clientId[1]]

(* the status the middleware answers and the transport it hands the *)
(* request to, "" for none                                          *)
MessagesOutcome(method, url, registered) ==
  LET clientId == SearchParamsGet(SplitPop(url), "sessionId") IN
  IF method = "OPTIONS" THEN [status |-> 204, handed |-> ""]
  ELSE IF method # "POST" THEN [status |-> 405, handed |-> ""]
  ELSE IF clientId = << >> \/ clientId[1] = "" THEN [status |-> 400, handed |-> ""]
  ELSE IF clientId[1] \notin registered THEN [status |-> 404, handed |-> ""]
  ELSE [status |-> 202, handed |-> clientId[1]]

(* a request to /messages; transport.handlePostMessage passes the tool *)
(* call in the body to the CallToolRequest handler.  The sets are the   *)
(* requests the clients of a specification send.                       *)
MessagesRequest(methods, urls, names, arguments, maxCalls) ==
  \E method \in methods, url \in urls :
    LET r == MessagesOutcome(method, url, transports) IN
    /\ http' = [method |-> method, url |-> url,
                status |-> r.status, handed |-> r.handed]
    /\ IF r.handed # ""
         THEN /\ Len(calls) < maxCalls
              /\ now + DefaultTimeout <= MaxTime
              /\ \E name \in names, a \in arguments :
                   CallToolRequestHandler(r.handed, name, a)
         ELSE UNCHANGED <<calls, wsOut>>
    /\ UNCHANGED <<transports, opened, wsIn, now, storeVars>>

----------------------------------------------------------------------------
(* bippy.instrument: onCommitFiberRoot *)

(* the phases bippy.traverseRenderedFibers reports a fiber in *)
Phases == {"mount", "update", "unmount"}

(* values held in a fiber's props, state and context: a primitive, or an *)
(* object with its own identity (ref) and the values it holds            *)
Atom(n) == [atom |-> n]
Obj(r, fs) == [ref |-> r, fields |-> fs]
IsAtom(v) == "atom" \in DOMAIN v

(* structural comparison of two values, identities not compared *)
RECURSIVE DeepEqual(_, _)

(* DeepEqual comparing objects by identity *)
DeepEqual_ByReference(a, b) == a = b

DeepEqual(a, b) ==
  IF IsAtom(a) \/ IsAtom(b)
    THEN IsAtom(a) /\ IsAtom(b) /\ a.atom = b.atom
    ELSE /\ Len(a.fields) = Len(b.fields)
         /\ \A k \in 1..Len(a.fields) : DeepEqual(a.fields[k], b.fields[k])

(* collectUnnecessaryRender(fiber), run while the counter reads frame: the *)
(* record it keeps of fiber k of the commit                               *)
collectUnnecessaryRender(fiber, k, frame) ==
  [fiber |-> k, frame |-> frame,
   wasted |-> /\ DeepEqual(fiber.pre.props, fiber.post.props)
              /\ DeepEqual(fiber.pre.state, fiber.post.state)
              /\ DeepEqual(fiber.pre.context, fiber.post.context)]

(* PhaseCollected with the phase test lost *)
PhaseCollected_AnyPhase(phase) == TRUE

(* if (phase === 'update') *)
PhaseCollected(phase) == phase = "update"

(* bippy.traverseRenderedFibers(root, callback): the callback runs once on *)
(* each rendered fiber, in order; the records of the fibers it collects    *)
RECURSIVE traverseRenderedFibers(_, _, _)
traverseRenderedFibers(fibers, k, frame) ==
  IF k > Len(fibers) THEN << >>
  ELSE (IF PhaseCollected(fibers[k].phase)
          THEN << collectUnnecessaryRender(fibers[k], k, frame) >>
          ELSE << >>)
       \o traverseRenderedFibers(fibers, k + 1, frame)

(* AddRoot with the has() test lost: the entry is always set anew *)
AddRoot_AlwaysSet(map, renderId, root) ==
  [r \in DOMAIN map \cup {renderId} |-> IF r = renderId THEN {root} ELSE map[r]]

(* fiberRoots.get(_renderId).add(root), or fiberRoots.set(_renderId, new Set([root])) *)
AddRoot(map, renderId, root) ==
  [r \in DOMAIN map \cup {renderId} |->
     IF r # renderId THEN map[r]
     ELSE IF renderId \in DOMAIN map THEN map[r] \cup {root}
     ELSE {root}]

(* FrameAtTraversal with the increment moved before the traversal *)
FrameAtTraversal_AfterIncrement(id) == id + 1

(* store.currentCommitFrameId as the traversal callback reads it: the *)
(* increment is the last statement of onCommitFiberRoot               *)
FrameAtTraversal(id) == id

(* NextCommitFrameId with the increment doubled *)
NextCommitFrameId_Twice(id) == id + 2

(* store.currentCommitFrameId += 1 *)
NextCommitFrameId(id) == id + 1

(* React commits root under renderer renderId with the rendered fibers *)
onCommitFiberRoot(renderIds, roots, fiberSet) ==
  /\ currentCommitFrameId < MaxCommits
  /\ \E renderId \in renderIds, root \in roots, n \in 0..MaxFibers :
       \E fibers \in [1..n -> fiberSet] :
         /\ fiberRoots' = AddRoot(fiberRoots, renderId, root)
         /\ commit' = [n |-> commit.n + 1, renderId |-> renderId, root |-> root,
                       fibers |-> fibers,
                       collected |-> traverseRenderedFibers(
                                       fibers, 1, FrameAtTraversal(currentCommitFrameId))]
         /\ currentCommitFrameId' = NextCommitFrameId(currentCommitFrameId)
  /\ UNCHANGED <<transports, opened, calls, wsOut, wsIn, now, http>>

----------------------------------------------------------------------------
(* The program, under the requests of its clients *)

Program(methods, urls, names, arguments, maxCalls, maxSessions) ==
  \/ SseOpen(maxSessions)
  \/ SseClose
  \/ MessagesRequest(methods, urls, names, arguments, maxCalls)
  \/ BrowserHandle
  \/ DeliverResponse
  \/ \E i \in 1..maxCalls : TimeoutFires(i)
  \/ Tick

(* well-formed POSTs for two of the tools with arguments their schemas accept *)
SessionUrls == { <<PathPiece, QueryPiece(v)>> : v \in SessionIds }
BridgeNames == {"highlight-component", "get-unnecessary-rerenders"}
BridgeArguments == { MkArgs(Str("App"), Undefined, Undefined) }

NextBridge == Program({"POST"}, SessionUrls, BridgeNames, BridgeArguments, MaxCalls, MaxSessions)
SpecBridge == Init /\ [][NextBridge]_vars

(* fewer well-formed POSTs, from one session, for the two tools whose *)
(* listeners send no response when the tool throws                   *)
FirstSessionUrl == { <<PathPiece, QueryPiece(SessionNames[1])>> }
WaitNames == {"get-component-tree", "get-component-states"}
NextWait == Program({"POST"}, FirstSessionUrl, WaitNames, BridgeArguments, MaxCallsFew, MaxSessionsFew)
SpecWait == Init /\ [][NextWait]_vars

(* the server's event loop runs a due timer, and time passes *)
SpecWaitLive ==
  /\ SpecWait
  /\ WF_vars(Tick)
  /\ WF_vars(\E i \in 1..MaxCallsFew : TimeoutFires(i))

(* well-formed POSTs from one session with any tool name and any arguments *)
NextDispatch == Program({"POST"}, FirstSessionUrl, RequestedNames, Arguments, MaxCallsFew, MaxSessionsFew)
SpecDispatch == Init /\ [][NextDispatch]_vars

(* any method and any url, calls of one tool *)
(* calls of two tools on one session *)
NextKinds == Program({"POST"}, FirstSessionUrl, BridgeNames, BridgeArguments, MaxCalls, MaxSessionsFew)
SpecKinds == Init /\ [][NextKinds]_vars

HttpNames == {"get-component-tree"}
NextHttp == Program(Methods, Urls, HttpNames, BridgeArguments, MaxCallsFew, MaxSessionsFew)
SpecHttp == Init /\ [][NextHttp]_vars

----------------------------------------------------------------------------
(* the listeners fed by the tool-call handler and by another sender *)
OtherPayloads == {NotJSON, JSONstringify(MkArgs(Str("App"), Undefined, Undefined))}
NextOther ==
  \/ Program({"POST"}, FirstSessionUrl, HttpNames, BridgeArguments, MaxCallsFew, MaxSessionsFew)
  \/ OtherSend(ToolNames, OtherPayloads)
SpecOther == Init /\ [][NextOther]_vars

----------------------------------------------------------------------------
(* the highlight-component listener, fed by the tool-call handler and by *)
(* another sender                                                        *)
HighlightNames == {"highlight-component"}
HighlightPayloads == { JSONstringify(MkArgs(Undefined, Undefined, Undefined)) }
NextHighlight ==
  \/ Program({"POST"}, FirstSessionUrl, HighlightNames, BridgeArguments,
             MaxCallsFew, MaxSessionsFew)
  \/ OtherSend(HighlightNames, HighlightPayloads)
SpecHighlight == Init /\ [][NextHighlight]_vars

----------------------------------------------------------------------------
(* the tab: commits of React interleaved with the listeners *)

RenderIds == {1, 2}
Roots == {"rootA", "rootB"}

(* input values: V2 is a fresh object holding what V1 holds, V3 differs;  *)
(* V5 is a fresh nested object holding what V4 holds, V6 differs in depth *)
V1 == Obj("a", << Atom("x") >>)
V2 == Obj("b", << Atom("x") >>)
V3 == Obj("c", << Atom("y") >>)
V4 == Obj("d", << Obj("e", << Atom("x") >>), Atom("z") >>)
V5 == Obj("f", << Obj("g", << Atom("x") >>), Atom("z") >>)
V6 == Obj("h", << Obj("i", << Atom("y") >>), Atom("z") >>)

(* snapshots of a fiber's inputs *)
Snapshot(p, st, c) == [props |-> p, state |-> st, context |-> c]
S1 == Snapshot(V1, V4, V1)
(* the inputs before and after a render: unchanged, reallocated with the *)
(* same contents, and changed in props, in a nested state value, in      *)
(* context, in the shape of a value                                      *)
SnapshotPairs ==
  { <<S1, S1>>, <<S1, Snapshot(V2, V5, V2)>>, <<Snapshot(V2, V5, V2), S1>>,
    <<S1, Snapshot(V3, V4, V1)>>, <<S1, Snapshot(V1, V6, V1)>>,
    <<S1, Snapshot(V1, V4, V3)>>, <<S1, Snapshot(V1, V1, V1)>> }

CommitFibers ==
  { [phase |-> p, pre |-> Snapshot(V1, V4, V1), post |-> Snapshot(V2, V5, V2)] :
      p \in Phases }
TabEvents == {"get-unnecessary-rerenders"}
TabPayloads == { JSONstringify(MkArgs(Undefined, Undefined, Undefined)) }

NextCommit ==
  \/ onCommitFiberRoot(RenderIds, Roots, CommitFibers)
  \/ OtherSend(TabEvents, TabPayloads)
  \/ BrowserHandle
  \/ DeliverResponse
SpecCommit == Init /\ [][NextCommit]_vars

(* commits of update-phase fibers over every pair of snapshots *)
ClassifyFibers ==
  { [phase |-> "update", pre |-> p[1], post |-> p[2]] : p \in SnapshotPairs }
NextClassify == onCommitFiberRoot({1}, {"rootA"}, ClassifyFibers)
SpecClassify == Init /\ [][NextClassify]_vars

----------------------------------------------------------------------------
(* Properties *)

EventsOfCall(i) ==
  { k \in 1..Len(wsOut) : wsOut[k].call = i } \cup
  { k \in 1..Len(wsIn) : wsIn[k].forCall = i }

(* C1: a call of one of the four tools whose arguments its schema rejects *)
(* has ended with the error 'Invalid input: ...', has published no event  *)
(* on the websocket and has no event of its own in flight.                *)
C1_InvalidInputPublishesNothing ==
  \A i \in 1..Len(calls) :
    (calls[i].name \in ToolNames /\ ~SchemaAccepts(calls[i].name, calls[i].args)) =>
      /\ calls[i].st = "Failed"
      /\ calls[i].result.kind = "error"
      /\ calls[i].result.text[1] = "Invalid input: "
      /\ calls[i].sent = 0
      /\ EventsOfCall(i) = {}

(* highlight-component called with {"componentName": 123} *)
C1_Witness ==
  \E i \in 1..Len(calls) :
    /\ calls[i].name = "highlight-component"
    /\ calls[i].args.componentName = Num("123")
    /\ calls[i].st = "Failed"

(* C10: a call whose name is none of the four tools has ended with the *)
(* error 'Unknown tool: <name>' carrying that name, has published no   *)
(* event and has registered no waiter.                                 *)
C10_UnknownToolTouchesNoBridge ==
  \A i \in 1..Len(calls) :
    calls[i].name \notin ToolNames =>
      /\ calls[i].st = "Failed"
      /\ calls[i].result = ErrorResult(<<"Unknown tool: ", calls[i].name>>)
      /\ calls[i].sent = 0
      /\ EventsOfCall(i) = {}
      /\ calls[i].waiter.event = ""
      /\ i \notin Pending

C10_Witness ==
  \E i \in 1..Len(calls) :
    calls[i].name = "no-such-tool" /\ calls[i].result.kind = "error"

SameKind(i, j) ==
  calls[i].session = calls[j].session /\ calls[i].name = calls[j].name

(* C2: of two calls of one kind on one session that both resolved, the *)
(* later one was resolved by the response to its own request, not by   *)
(* the response produced for the earlier one.                          *)
C2_SecondCallGetsOwnResponse ==
  \A i, j \in 1..Len(calls) :
    (i < j /\ SameKind(i, j) /\ calls[i].st = "Resolved" /\ calls[j].st = "Resolved")
      => calls[j].by = j

(* C3: no two requests of one kind on one session are pending together. *)
C3_OnePendingPerSessionAndKind ==
  \A i, j \in Pending : SameKind(i, j) => i = j

(* C4: every call the handler accepted ends with a text result or an *)
(* error for its client.                                             *)
C4_EveryCallTerminates ==
  \A i \in 1..MaxCallsFew :
    (i <= Len(calls)) ~>
      (i <= Len(calls) /\ calls[i].st # "Sent" /\ calls[i].result.kind \in {"text", "error"})

(* a call whose browser listener threw, sending no response, has ended *)
C4_Witness ==
  \E i \in 1..Len(calls) :
    /\ calls[i].browser = "threw"
    /\ calls[i].st = "TimedOut"
    /\ calls[i].result.kind = "error"

(* C5: a call that got no response is timed out with a timeout error, *)
(* never before its deadline, and is never still waiting after it.    *)
C5_TimeoutAtDeadline ==
  \A i \in 1..Len(calls) :
    /\ calls[i].st = "TimedOut" =>
         /\ now >= calls[i].waiter.deadline
         /\ calls[i].result.kind = "error"
         /\ calls[i].result.text[1] = "Timeout waiting for "
    /\ calls[i].st = "Sent" => now <= calls[i].waiter.deadline

C5_Witness ==
  \E i \in 1..Len(calls) :
    /\ calls[i].st = "TimedOut"
    /\ calls[i].browser = ""
    /\ now = calls[i].waiter.deadline

(* C6: no pending request is owned by a session whose connection closed. *)
C6_ClosedSessionHasNoPending ==
  \A i \in Pending : calls[i].session \in transports

(* C7: the response to a call that timed out resolves no later call. *)
C7_StaleResponseDiscarded ==
  \A i, j \in 1..Len(calls) :
    (i < j /\ calls[i].st = "TimedOut" /\ calls[j].st = "Resolved") => calls[j].by # i

(* the sessionId parameter of the query string of url as the URL standard *)
(* reads it: the query is all that follows the first '?', so a later '?'  *)
(* is part of the value it stands in                                      *)
StandardSessionId(url) ==
  IF Len(url) < 2 THEN << >>
  ELSE LET q == url[2]
           at == { k \in 1..Len(q) : q[k][1] = "sessionId" }
           first == CHOOSE k \in at : \A l \in at : k <= l
       IN  IF at = {} THEN << >>
           ELSE IF first = Len(q) /\ Len(url) > 2 THEN << "value?rest" >>
           ELSE << q[first][2] >>

Rejections == {204, 400, 404, 405}

(* C8: /messages answers OPTIONS with 204, any other method but POST with *)
(* 405, a POST with no or an empty sessionId parameter with 400, a POST   *)
(* whose sessionId is not registered with 404, and hands only a POST with *)
(* a registered sessionId to that session's transport.                    *)
C8_MessagesStatus ==
  [][ http' # http =>
        LET m == http'.method
            sid == StandardSessionId(http'.url)
            missing == sid = << >> \/ sid = << "" >>
        IN  /\ m = "OPTIONS" => http'.status = 204
            /\ m \notin {"OPTIONS", "POST"} => http'.status = 405
            /\ (m = "POST" /\ missing) => http'.status = 400
            /\ (m = "POST" /\ ~missing /\ sid[1] \notin transports) => http'.status = 404
            /\ (m = "POST" /\ ~missing /\ sid[1] \in transports) =>
                 (http'.status \notin Rejections /\ http'.handed = sid[1])
            /\ http'.status \in Rejections => http'.handed = ""
    ]_vars

(* C9: a /messages request answered 204, 400, 404 or 405 leaves the session *)
(* map as it was, passes no call to the handler and publishes no event.     *)
C9_RejectedRequestChangesNothing ==
  [][ (http' # http /\ http'.status \in Rejections) =>
        UNCHANGED <<transports, opened, calls, wsOut, wsIn, now>>
    ]_vars

(* a POST for the unregistered sessionId "xyz" answered 404 while another *)
(* session is registered and has a call waiting                           *)
C9_Witness ==
  /\ http.status = 404
  /\ http.url = <<PathPiece, QueryPiece("xyz")>>
  /\ transports # {}
  /\ Pending # {}

(* the request events of call i on their way to the browser *)
OutEvents(q, i) == { k \in 1..Len(q) : q[k].call = i }

(* C11: the step that enters the handler with arguments the schema accepts *)
(* publishes exactly one event, named after the tool and carrying the JSON *)
(* of the validated arguments, and leaves the call waiting; no later step  *)
(* publishes another event for a call.                                     *)
C11_ExactlyOneEventPerCall ==
  [][ \A i \in 1..Len(calls') :
        IF i > Len(calls)
          THEN (calls'[i].name \in ToolNames
                  /\ SchemaAccepts(calls'[i].name, calls'[i].args)) =>
                 /\ calls'[i].st = "Sent"
                 /\ calls'[i].sent = 1
                 /\ Cardinality(OutEvents(wsOut', i)) = 1
                 /\ \A k \in OutEvents(wsOut', i) :
                      /\ wsOut'[k].event = calls'[i].name
                      /\ wsOut'[k].data =
                           JSONstringify(SchemaParse(calls'[i].name, calls'[i].args))
          ELSE Cardinality(OutEvents(wsOut', i)) <= Cardinality(OutEvents(wsOut, i))
    ]_vars

(* a call that published its event, waited and timed out *)
C11_Witness ==
  \E i \in 1..Len(calls) :
    calls[i].st = "TimedOut" /\ calls[i].sent = 1 /\ calls[i].browser = ""

(* C16: when a response event is delivered, every call of a tool other  *)
(* than the one the response answers is left exactly as it was; calls of *)
(* different tools are pending together (the witness).                   *)
C16_ResponseTouchesOwnKindOnly ==
  [][ (wsIn # << >> /\ wsIn' = Tail(wsIn)) =>
        \A j \in 1..Len(calls) :
          calls[j].name # calls[Head(wsIn).forCall].name => calls'[j] = calls[j]
    ]_vars

(* a call resolved by its own response while a call of another tool, *)
(* entered before that response was delivered, is still waiting      *)
C16_Witness ==
  \E i, j \in 1..Len(calls) :
    /\ calls[i].name # calls[j].name
    /\ calls[i].st = "Resolved" /\ calls[i].by = i
    /\ calls[j].st = "Sent" /\ calls[j].waiter.deadline <= calls[i].waiter.deadline

(* C14: the session map changes only by the registration of one sessionId *)
(* no session had before or by the removal of one registered sessionId,   *)
(* and a POST to /messages whose sessionId parameter names a session that *)
(* was opened and has closed is answered 404.                             *)
C14_SessionMapTracksConnections ==
  [][ /\ transports' # transports =>
           \E s \in SessionIds :
             \/ /\ s \notin opened /\ s \notin transports
                /\ transports' = transports \cup {s}
                /\ opened' = opened \cup {s}
             \/ /\ s \in transports
                /\ transports' = transports \ {s}
                /\ opened' = opened
      /\ (http' # http /\ http'.method = "POST") =>
           LET sid == StandardSessionId(http'.url) IN
           (sid # << >> /\ sid[1] \in opened \ transports) => http'.status = 404
    ]_vars

(* the response events for call i on their way to the server *)
InEvents(q, i) == { k \in 1..Len(q) : q[k].forCall = i }

(* C17: a listener whose tool returned a result that JSON.stringify *)
(* rejects still sends one response event for the request.          *)
C17_SerializationFailureAnswered ==
  [][ \A i \in 1..Len(calls) :
        (calls[i].outcome = "" /\ calls'[i].outcome = "unserializable") =>
          /\ Cardinality(InEvents(wsIn', i)) = Cardinality(InEvents(wsIn, i)) + 1
          /\ wsIn'[Len(wsIn')].event = ServerResponseEvent(calls[i].name)
    ]_vars

(* C18: a listener handed a payload that is not JSON sends a response *)
(* event for it, so that the error it raises reaches the server.      *)
C18_MalformedPayloadAnswered ==
  [][ (wsOut # << >> /\ wsOut' = Tail(wsOut) /\ ~IsJSON(Head(wsOut).data)) =>
        /\ Len(wsIn') = Len(wsIn) + 1
        /\ wsIn'[Len(wsIn')].event = ServerResponseEvent(Head(wsOut).event)
    ]_vars

(* C12: the commit counter equals the number of commit notifications so *)
(* far: each notification raises it by exactly one, and a step of the   *)
(* listeners or of the websocket leaves it as it was.                   *)
C12_CounterCountsCommits ==
  [][ /\ currentCommitFrameId' - currentCommitFrameId = commit'.n - commit.n
      /\ currentCommitFrameId' \in {currentCommitFrameId, currentCommitFrameId + 1}
      /\ (wsOut' # wsOut \/ wsIn' # wsIn) => currentCommitFrameId' = currentCommitFrameId
    ]_vars

(* two commits were counted and a listener has answered a request *)
C12_Witness ==
  commit.n = MaxCommits /\ currentCommitFrameId = MaxCommits /\ wsIn # << >>

(* C13: of the fibers of a commit, exactly those in phase update were *)
(* handed to collectUnnecessaryRender, each of them once.             *)
C13_OnlyUpdateFibersCollected ==
  LET upd == { k \in 1..Len(commit.fibers) : commit.fibers[k].phase = "update" } IN
  /\ \A k \in upd :
       Cardinality({ j \in 1..Len(commit.collected) : commit.collected[j].fiber = k }) = 1
  /\ \A j \in 1..Len(commit.collected) : commit.collected[j].fiber \in upd

(* a commit of a mount-phase fiber and an update-phase fiber *)
C13_Witness ==
  /\ \E k \in 1..Len(commit.fibers) : commit.fibers[k].phase = "mount"
  /\ \E k \in 1..Len(commit.fibers) : commit.fibers[k].phase = "update"
  /\ Len(commit.collected) = 1

(* C15: fiberRoots only grows; a commit notification (renderId, root) *)
(* adds root to the set under renderId, creating the entry if absent, *)
(* and leaves the sets under the other renderIds as they were; no     *)
(* other step changes fiberRoots.                                     *)
C15_RootSetOnlyGrows ==
  [][ /\ DOMAIN fiberRoots \subseteq DOMAIN fiberRoots'
      /\ \A r \in DOMAIN fiberRoots : fiberRoots[r] \subseteq fiberRoots'[r]
      /\ commit'.n # commit.n =>
           /\ DOMAIN fiberRoots' = DOMAIN fiberRoots \cup {commit'.renderId}
           /\ fiberRoots'[commit'.renderId] =
                (IF commit'.renderId \in DOMAIN fiberRoots
                   THEN fiberRoots[commit'.renderId] ELSE {}) \cup {commit'.root}
           /\ \A r \in DOMAIN fiberRoots \ {commit'.renderId} :
                fiberRoots'[r] = fiberRoots[r]
      /\ commit'.n = commit.n => fiberRoots' = fiberRoots
    ]_vars

(* a second root was added to the set an earlier commit created *)
C15_Witness ==
  \E r \in DOMAIN fiberRoots : Cardinality(fiberRoots[r]) = 2

(* C20: every fiber collected in a commit was collected while the counter *)
(* read its value from before that commit, and the counter stands one     *)
(* above it once the commit is done.                                      *)
C20_CommitIsOneStep ==
  \A j \in 1..Len(commit.collected) :
    commit.collected[j].frame = currentCommitFrameId - 1

(* a commit collected two fibers while a request event was waiting for *)
(* its listener                                                        *)
C20_Witness ==
  Len(commit.collected) = 2 /\ commit.n = 2 /\ wsOut # << >>

(* a value with the identities of its objects removed *)
RECURSIVE Contents(_)
Contents(v) ==
  IF IsAtom(v) THEN v
  ELSE [fields |-> [k \in 1..Len(v.fields) |-> Contents(v.fields[k])]]

SnapshotContents(sn) ==
  [props |-> Contents(sn.props), state |-> Contents(sn.state),
   context |-> Contents(sn.context)]

C21_EventNamesAgree ==
  [][ /\ \A t \in ToolNames :
           /\ ServerRequestEvent(t) = BrowserRequestEvent(t)
           /\ ServerResponseEvent(t) = BrowserResponseEvent(t)
      /\ \A t, u \in ToolNames :
           /\ ServerRequestEvent(t) # ServerResponseEvent(u)
           /\ t # u => /\ ServerRequestEvent(t) # ServerRequestEvent(u)
                       /\ ServerResponseEvent(t) # ServerResponseEvent(u)
      /\ (wsOut # << >> /\ wsOut' = Tail(wsOut) /\ Head(wsOut).call \in 1..Len(calls)) =>
           LET i == Head(wsOut).call IN
           /\ Head(wsOut).event = BrowserRequestEvent(calls[i].name)
           /\ \A k \in (Len(wsIn) + 1)..Len(wsIn') :
                /\ wsIn'[k].forCall = i
                /\ wsIn'[k].event = calls[i].waiter.event
    ]_vars

(* a get-component-states call resolved by the answer of its own listener *)
C21_Witness ==
  \E i \in 1..Len(calls) :
    /\ calls[i].name = "get-component-states"
    /\ calls[i].browser = "answered"
    /\ calls[i].st = "Resolved" /\ calls[i].by = i

(* C22: the highlight-component listener, run on a payload that parses,  *)
(* sends nothing when componentName is not a string; otherwise it sends  *)
(* one highlight-component-response whose text is the found text when    *)
(* the tool returned components, 'Action failed' when it returned none   *)
(* and the error text when it threw.                                     *)
C22_HighlightAnswers ==
  [][ (/\ wsOut # << >> /\ wsOut' = Tail(wsOut)
       /\ Head(wsOut).event = "highlight-component"
       /\ IsJSON(Head(wsOut).data)) =>
        LET i == Head(wsOut).call
            last == wsIn'[Len(wsIn')]
        IN  IF JSONparse(Head(wsOut).data).componentName.t # "string"
              THEN wsIn' = wsIn
              ELSE /\ Len(wsIn') = Len(wsIn) + 1
                   /\ SubSeq(wsIn', 1, Len(wsIn)) = wsIn
                   /\ last.event = "highlight-component-response"
                   /\ last.data \in {"Found and highlighted N components",
                                     "Action failed", "Error: message"}
                   /\ i \in 1..Len(calls) =>
                        /\ calls'[i].outcome = "found" =>
                             last.data = "Found and highlighted N components"
                        /\ calls'[i].outcome = "none" => last.data = "Action failed"
                        /\ calls'[i].outcome = "throws" => last.data = "Error: message"
    ]_vars

(* a highlight-component call answered with the error text of a tool *)
(* that threw                                                        *)
C22_Witness ==
  \E i \in 1..Len(calls) :
    /\ calls[i].name = "highlight-component"
    /\ calls[i].outcome = "throws"
    /\ calls[i].st = "Resolved" /\ calls[i].by = i
    /\ calls[i].result = TextResult("Error: message")

(* C23: from the step that publishes a call's request event on, the    *)
(* listener for its response event is registered, so the response of   *)
(* the tab finds it: a response delivered while its call still waits   *)
(* resolves that call.                                                 *)
C23_WaiterRegisteredWithRequest ==
  [][ /\ \A k \in 1..Len(wsOut') :
           LET i == wsOut'[k].call IN
           i \in 1..Len(calls') =>
             calls'[i].waiter.event = ServerResponseEvent(calls'[i].name)
      /\ (wsIn # << >> /\ wsIn' = Tail(wsIn) /\ Head(wsIn).forCall \in 1..Len(calls)) =>
           LET i == Head(wsIn).forCall IN
           /\ calls[i].waiter.event = Head(wsIn).event
           /\ calls[i].st = "Sent" => calls'[i].st = "Resolved"
    ]_vars

(* a get-unnecessary-rerenders call resolved by its own response with no *)
(* time passed since the handler was entered                             *)
C23_Witness ==
  \E i \in 1..Len(calls) :
    /\ calls[i].name = "get-unnecessary-rerenders"
    /\ calls[i].st = "Resolved" /\ calls[i].by = i
    /\ calls[i].waiter.deadline = now + DefaultTimeout

====
